---- MODULE Spec2Model ----
(***************************************************************************)
(* State-machine model of main.py of demo-svhn-classifier: the two CLI     *)
(* commands `remote` (load_from_remote) and `local` (train_in_local), the  *)
(* Keras fit loop they drive and the three callbacks wired into it         *)
(* (EarlyStopping, ModelCheckpoint with save_best_only, CSVLogger).        *)
(***************************************************************************)
EXTENDS Integers, Sequences, FiniteSets, TLC

VARIABLES
    cmd,            \* the CLI command of this invocation: "remote" | "local"
    workdir0,       \* what LOCAL_DIR held when the process started
    pc,             \* index of the current statement in Program(cmd)
    status,         \* "running" | "done" | "failed"
    exit,           \* process exit status (meaningful once status # "running")
    attempts,       \* the stages entered so far, in order
    datasets,       \* dataset files present under LOCAL_DIR
    fetched,        \* dataset files fetched over the network by this process
    bundles,        \* pretrained-model bundles present under LOCAL_DIR
    ckpt,           \* <LOCAL_DIR>/<arch>/ckpt        : [src, epoch]
    log,            \* <LOCAL_DIR>/<arch>/training_log.csv : [src, rows]
    saved,          \* <LOCAL_DIR>/<arch>/model       : [src, epoch]
    weights,        \* in-memory weights of model_<arch> : [src, epoch]
    epoch,          \* epochs executed by fit of model_<arch>
    stop_training,  \* model_<arch>.stop_training
    inFit,          \* TRUE while control is inside a fit call
    es,             \* the single EarlyStopping object: [best, wait, stopped_epoch]
    ck_best,        \* .best of the ModelCheckpoint object handed to the fit call in progress
    hmax,           \* history: largest val_accuracy of the run in progress
    nofail,         \* history: trailing epochs of that run that did not exceed the maximum before them
    argmax,         \* history: earliest epoch of the run that attained hmax
    trace           \* the callback invocations of the latest epoch, in order

vars == <<cmd, workdir0, pc, status, exit, attempts, datasets, fetched, bundles,
          ckpt, log, saved, weights, epoch, stop_training, inFit, es, ck_best,
          hmax, nofail, argmax, trace>>

(*************************** constants of main.py **************************)
TRAIN_DATA_NAME == "train_data.mat"
TEST_DATA_NAME == "test_data.mat"
EPOCHS == 30
PATIENCE == 3

Arch == {"mlp", "cnn"}

\* val_accuracy is (correct validation samples) / (validation samples): with
\* MaxAcc validation samples it takes the values 0..MaxAcc.
MaxAcc == 9
Acc == 0..MaxAcc

\* -np.Inf, the initial `best` of a callback monitoring in mode max: below every accuracy.
NegInf == 0 - 1

NoFile == [src |-> "none", epoch |-> 0]
NoLog == [src |-> "none", rows |-> 0]
PriorCkpt == [src |-> "prior", epoch |-> 1]
PriorLog == [src |-> "prior", rows |-> 1]
BundleCkpt == [src |-> "bundle", epoch |-> 1]
BundleLog == [src |-> "bundle", rows |-> 1]

(****************************** the two commands ***************************)
St(op, arg) == [op |-> op, arg |-> arg]

\* (variant) load_from_remote fetching the training set too, as train_in_local does
RemoteStagesWithTrain ==
    << St("download_data", TRAIN_DATA_NAME),
       St("download_data", TEST_DATA_NAME),
       St("download_pretrained_model", "mlp"),
       St("download_pretrained_model", "cnn"),
       St("unzip_downloaded_model", "mlp"),
       St("unzip_downloaded_model", "cnn") >>

\* load_from_remote, statement by statement
RemoteStages ==
    << St("download_data", TEST_DATA_NAME),
       St("download_pretrained_model", "mlp"),
       St("download_pretrained_model", "cnn"),
       St("unzip_downloaded_model", "mlp"),
       St("unzip_downloaded_model", "cnn") >>

\* (variant) train_in_local finalizing the MLP right after its fit
LocalStagesFinalizeEarly ==
    << St("download_data", TRAIN_DATA_NAME),
       St("download_data", TEST_DATA_NAME),
       St("load_data", TRAIN_DATA_NAME),
       St("reshape_data", ""),
       St("convert_to_grayscale", ""),
       St("callbacks", ""),
       St("define_model", "mlp"),
       St("fit", "mlp"),
       St("load_weights", "mlp"),
       St("save", "mlp"),
       St("newaxis", ""),
       St("define_model", "cnn"),
       St("fit", "cnn"),
       St("load_weights", "cnn"),
       St("save", "cnn") >>

\* train_in_local, statement by statement
LocalStages ==
    << St("download_data", TRAIN_DATA_NAME),
       St("download_data", TEST_DATA_NAME),
       St("load_data", TRAIN_DATA_NAME),
       St("reshape_data", ""),
       St("convert_to_grayscale", ""),
       St("callbacks", ""),
       St("define_model", "mlp"),
       St("fit", "mlp"),
       St("newaxis", ""),
       St("define_model", "cnn"),
       St("fit", "cnn"),
       St("load_weights", "mlp"),
       St("save", "mlp"),
       St("load_weights", "cnn"),
       St("save", "cnn") >>

Program(c) == IF c = "remote" THEN RemoteStages ELSE LocalStages

Stage == Program(cmd)[pc]

At(op) == status = "running" /\ pc <= Len(Program(cmd)) /\ Stage.op = op

\* (variant) the callbacks list with the early-stopping monitor last
CallbacksStopLast(a) == << "checkpoint", "records", "early_stopping" >>

\* the callbacks list handed to fit, in list order
Callbacks(a) == << "early_stopping", "checkpoint", "records" >>

(********************************* callbacks *******************************)
\* The state the callbacks of one fit call read and write.
\*   st.es, st.best (the checkpoint callback's best), st.ckpt, st.log,
\*   st.stop (model.stop_training), st.trace

\* np.greater, the monitor_op of mode max
Greater(current, best) == current > best

\* EarlyStopping(monitor="val_accuracy", patience=3, mode="max") as constructed
EarlyStoppingInit == [best |-> NegInf, wait |-> 0, stopped_epoch |-> 0]

\* (variant) an EarlyStopping that keeps its fields from one fit call to the next
EarlyStoppingNoReset(e) == e

\* EarlyStopping.on_train_begin: the instance is re-usable, its fields start afresh
EarlyStoppingOnTrainBegin(e) == [best |-> NegInf, wait |-> 0, stopped_epoch |-> 0]

\* (variant) EarlyStopping stopping one epoch late (wait > patience)
EarlyStoppingStopsLate(st, ep, v) ==
    IF Greater(v, st.es.best)
    THEN [st EXCEPT !.es = [@ EXCEPT !.best = v, !.wait = 0]]
    ELSE LET w == st.es.wait + 1
         IN  IF w > PATIENCE
             THEN [st EXCEPT !.es = [@ EXCEPT !.wait = w, !.stopped_epoch = ep - 1],
                             !.stop = TRUE]
             ELSE [st EXCEPT !.es = [@ EXCEPT !.wait = w]]

\* EarlyStopping.on_epoch_end with monitor val_accuracy, mode max, patience 3,
\* min_delta 0, no baseline, restore_best_weights off
EarlyStoppingOnEpochEnd(st, ep, v) ==
    IF Greater(v, st.es.best)
    THEN [st EXCEPT !.es = [@ EXCEPT !.best = v, !.wait = 0]]
    ELSE LET w == st.es.wait + 1
         IN  IF w >= PATIENCE
             THEN [st EXCEPT !.es = [@ EXCEPT !.wait = w, !.stopped_epoch = ep - 1],
                             !.stop = TRUE]
             ELSE [st EXCEPT !.es = [@ EXCEPT !.wait = w]]

\* (variant) ModelCheckpoint without save_best_only: every epoch is saved
ModelCheckpointSavesAlways(st, ep, v) ==
    [st EXCEPT !.best = IF v > @ THEN v ELSE @,
               !.ckpt = [src |-> "this", epoch |-> ep]]

\* (variant) ModelCheckpoint overwriting on a tie with the best
ModelCheckpointTieSaves(st, ep, v) ==
    IF v >= st.best
    THEN [st EXCEPT !.best = v, !.ckpt = [src |-> "this", epoch |-> ep]]
    ELSE st

\* ModelCheckpoint.on_epoch_end with save_best_only, save_weights_only,
\* save_freq "epoch", monitor val_accuracy (mode auto: greater, best = -Inf)
ModelCheckpointOnEpochEnd(st, ep, v) ==
    IF Greater(v, st.best)
    THEN [st EXCEPT !.best = v, !.ckpt = [src |-> "this", epoch |-> ep]]
    ELSE st

\* mlp_checkpoint and cnn_checkpoint are two objects, each constructed with
\* best = -Inf and each handed to one fit call only: the checkpoint callback of a
\* fit call starts from the constructor's value, whatever the other object holds.
CheckpointOfFit(best) == NegInf

\* (variant) a CSVLogger opened with append=True
CSVLoggerAppends(l) == [src |-> "this", rows |-> l.rows]

\* CSVLogger.on_train_begin with append=False: the file is opened for writing, empty
CSVLoggerOnTrainBegin(l) == [src |-> "this", rows |-> 0]

\* CSVLogger.on_epoch_end: one row
CSVLoggerOnEpochEnd(st, ep, v) ==
    [st EXCEPT !.log = [@ EXCEPT !.rows = @ + 1]]

Event(cb, st) ==
    [cb |-> cb, stop |-> st.stop, rows |-> st.log.rows]

OnEpochEnd(cb, st, ep, v) ==
    LET seen == [st EXCEPT !.trace = Append(@, Event(cb, st))]
    IN  CASE cb = "early_stopping" -> EarlyStoppingOnEpochEnd(seen, ep, v)
          [] cb = "checkpoint"     -> ModelCheckpointOnEpochEnd(seen, ep, v)
          [] cb = "records"        -> CSVLoggerOnEpochEnd(seen, ep, v)

RECURSIVE CallbackList(_, _, _, _)
CallbackList(cbs, st, ep, v) ==
    IF cbs = << >> THEN st
    ELSE CallbackList(Tail(cbs), OnEpochEnd(Head(cbs), st, ep, v), ep, v)

(********************************** stages *********************************)
Enter == attempts' = Append(attempts, Stage)

Return ==
    /\ pc' = pc + 1
    /\ status' = IF pc = Len(Program(cmd)) THEN "done" ELSE "running"
    /\ exit' = 0

fitVars == <<ckpt, log, weights, epoch, stop_training, inFit, es, ck_best,
             hmax, nofail, argmax, trace>>

\* preprocess.download_data: the file exists afterwards; fetched only if absent
DownloadData ==
    /\ At("download_data")
    /\ Enter /\ Return
    /\ datasets' = datasets \cup {Stage.arg}
    /\ fetched' = IF Stage.arg \in datasets THEN fetched ELSE fetched \cup {Stage.arg}
    /\ UNCHANGED <<cmd, workdir0, bundles, saved>>
    /\ UNCHANGED fitVars

\* preprocess.download_pretrained_model
DownloadPretrainedModel ==
    /\ At("download_pretrained_model")
    /\ Enter /\ Return
    /\ bundles' = bundles \cup {Stage.arg}
    /\ UNCHANGED <<cmd, workdir0, datasets, fetched, saved>>
    /\ UNCHANGED fitVars

\* preprocess.unzip_downloaded_model: the bundle's checkpoint and log appear in <arch>/
UnzipDownloadedModel ==
    /\ At("unzip_downloaded_model")
    /\ Stage.arg \in bundles
    /\ Enter /\ Return
    /\ ckpt' = [ckpt EXCEPT ![Stage.arg] = BundleCkpt]
    /\ log' = [log EXCEPT ![Stage.arg] = BundleLog]
    /\ UNCHANGED <<cmd, workdir0, datasets, fetched, bundles, saved>>
    /\ UNCHANGED <<weights, epoch, stop_training, inFit, es, ck_best,
                   hmax, nofail, argmax, trace>>

\* load_data, reshape_data, convert_to_grayscale, the callback constructors,
\* train_data[:, :, :, np.newaxis]: no state of the model changes
Prepare ==
    /\ \/ At("load_data") /\ Stage.arg \in datasets
       \/ At("reshape_data")
       \/ At("convert_to_grayscale")
       \/ At("callbacks")
       \/ At("newaxis")
    /\ Enter /\ Return
    /\ UNCHANGED <<cmd, workdir0, datasets, fetched, bundles, saved>>
    /\ UNCHANGED fitVars

\* models.define_model_<arch> and models.compile_model: fresh weights
DefineModel ==
    /\ At("define_model")
    /\ Enter /\ Return
    /\ weights' = [weights EXCEPT ![Stage.arg] = [src |-> "init", epoch |-> 0]]
    /\ UNCHANGED <<cmd, workdir0, datasets, fetched, bundles, saved>>
    /\ UNCHANGED <<ckpt, log, epoch, stop_training, inFit, es, ck_best,
                   hmax, nofail, argmax, trace>>

\* model.fit, entry: stop_training = False, then on_train_begin of each callback
FitBegin ==
    /\ At("fit") /\ ~inFit
    /\ Enter
    /\ inFit' = TRUE
    /\ stop_training' = [stop_training EXCEPT ![Stage.arg] = FALSE]
    /\ es' = EarlyStoppingOnTrainBegin(es)
    /\ ck_best' = CheckpointOfFit(ck_best)
    /\ log' = [log EXCEPT ![Stage.arg] = CSVLoggerOnTrainBegin(@)]
    /\ hmax' = NegInf
    /\ nofail' = 0
    /\ UNCHANGED <<cmd, workdir0, pc, status, exit, datasets, fetched, bundles, saved>>
    /\ UNCHANGED <<ckpt, weights, epoch, argmax, trace>>

\* (variant) a loop test that lets one more epoch through
LoopContinuesOnceMore(a) == epoch[a] <= EPOCHS /\ ~stop_training[a]

\* the loop test of fit: for epoch in range(epochs) ... if self.stop_training: break
LoopContinues(a) == epoch[a] < EPOCHS /\ ~stop_training[a]

\* one epoch of fit: train, validate (v is the epoch's val_accuracy), callbacks
FitEpoch ==
    /\ At("fit") /\ inFit
    /\ LET a == Stage.arg IN
       /\ LoopContinues(a)
       /\ \E v \in Acc :
          LET ep == epoch[a] + 1
              st0 == [es |-> es, best |-> ck_best, ckpt |-> ckpt[a], log |-> log[a],
                      stop |-> stop_training[a], trace |-> << >>]
              improved == ep = 1 \/ v > hmax
          IN  /\ epoch' = [epoch EXCEPT ![a] = ep]
              /\ weights' = [weights EXCEPT ![a] = [src |-> "this", epoch |-> ep]]
              /\ hmax' = IF improved THEN v ELSE hmax
              /\ argmax' = [argmax EXCEPT ![a] = IF improved THEN ep ELSE @]
              /\ nofail' = IF improved THEN 0 ELSE nofail + 1
              /\ \E st \in {CallbackList(Callbacks(a), st0, ep, v)} :
                    /\ es' = st.es
                    /\ ck_best' = st.best
                    /\ ckpt' = [ckpt EXCEPT ![a] = st.ckpt]
                    /\ log' = [log EXCEPT ![a] = st.log]
                    /\ stop_training' = [stop_training EXCEPT ![a] = st.stop]
                    /\ trace' = st.trace
    /\ UNCHANGED <<cmd, workdir0, pc, status, exit, attempts, datasets, fetched,
                   bundles, saved, inFit>>

\* model.fit returns; the callbacks keep their fields (the history of the run
\* in progress ends with the run)
FitEnd ==
    /\ At("fit") /\ inFit
    /\ ~LoopContinues(Stage.arg)
    /\ Return
    /\ inFit' = FALSE
    /\ hmax' = NegInf
    /\ nofail' = 0
    /\ UNCHANGED <<cmd, workdir0, attempts, datasets, fetched, bundles, saved>>
    /\ UNCHANGED <<ckpt, log, weights, epoch, stop_training, es, ck_best, argmax, trace>>

\* model.load_weights(<arch>/ckpt)
LoadWeights ==
    /\ At("load_weights")
    /\ ckpt[Stage.arg].src # "none"
    /\ Enter /\ Return
    /\ weights' = [weights EXCEPT ![Stage.arg] = ckpt[Stage.arg]]
    /\ UNCHANGED <<cmd, workdir0, datasets, fetched, bundles, saved>>
    /\ UNCHANGED <<ckpt, log, epoch, stop_training, inFit, es, ck_best,
                   hmax, nofail, argmax, trace>>

\* model.save(<arch>/model)
SaveModel ==
    /\ At("save")
    /\ Enter /\ Return
    /\ saved' = [saved EXCEPT ![Stage.arg] = weights[Stage.arg]]
    /\ UNCHANGED <<cmd, workdir0, datasets, fetched, bundles>>
    /\ UNCHANGED fitVars

\* (variant) a handler that re-attempts the statement that raised
OnRaiseRetry ==
    /\ pc' = pc
    /\ status' = "running"
    /\ exit' = exit

\* a statement raises: nothing in main.py catches it, the process ends
OnRaise ==
    /\ pc' = pc
    /\ status' = "failed"
    /\ exit' = 1

Raise ==
    /\ status = "running"
    /\ attempts' = IF inFit THEN attempts ELSE Append(attempts, Stage)
    /\ OnRaise
    /\ UNCHANGED <<cmd, workdir0, datasets, fetched, bundles, saved>>
    /\ UNCHANGED fitVars

(******************************* specification *****************************)
Init ==
    /\ cmd \in {"remote", "local"}
    /\ workdir0 \in {"empty", "prior"}
    /\ pc = 1
    /\ status = "running"
    /\ exit = 0
    /\ attempts = << >>
    /\ datasets = IF workdir0 = "prior" THEN {TRAIN_DATA_NAME, TEST_DATA_NAME} ELSE {}
    /\ fetched = {}
    /\ bundles = {}
    /\ ckpt = [a \in Arch |-> IF workdir0 = "prior" THEN PriorCkpt ELSE NoFile]
    /\ log = [a \in Arch |-> IF workdir0 = "prior" THEN PriorLog ELSE NoLog]
    /\ saved = [a \in Arch |-> IF workdir0 = "prior" THEN PriorCkpt ELSE NoFile]
    /\ weights = [a \in Arch |-> NoFile]
    /\ epoch = [a \in Arch |-> 0]
    /\ stop_training = [a \in Arch |-> FALSE]
    /\ inFit = FALSE
    /\ es = EarlyStoppingInit
    /\ ck_best = NegInf
    /\ hmax = NegInf
    /\ nofail = 0
    /\ argmax = [a \in Arch |-> 0]
    /\ trace = << >>

Next ==
    \/ DownloadData
    \/ DownloadPretrainedModel
    \/ UnzipDownloadedModel
    \/ Prepare
    \/ DefineModel
    \/ FitBegin
    \/ FitEpoch
    \/ FitEnd
    \/ LoadWeights
    \/ SaveModel
    \/ Raise

Spec == Init /\ [][Next]_vars

\* the invocations in which no statement raises; the process is scheduled
\* until it exits
Run ==
    \/ DownloadData
    \/ DownloadPretrainedModel
    \/ UnzipDownloadedModel
    \/ Prepare
    \/ DefineModel
    \/ FitBegin
    \/ FitEpoch
    \/ FitEnd
    \/ LoadWeights
    \/ SaveModel

FairSpec == Init /\ [][Run]_vars /\ WF_vars(Run)

(*********************************** claims ********************************)
\* stage s of train_in_local has returned
Completed(s) == cmd = "local" /\ \E i \in 1..(pc - 1) : LocalStages[i] = s

\* control is inside (or failed inside) the fit call of architecture a
Fitting(a) == cmd = "local" /\ inFit /\ Stage = St("fit", a)

Names(t) == [i \in 1..Len(t) |-> t[i].cb]

Workdir0Ckpt == IF workdir0 = "prior" THEN PriorCkpt ELSE NoFile

\* C1: within a fit call, the early-stopping monitor has set stop_training
\* exactly when the last 3 epochs each failed to strictly exceed the best
\* val_accuracy seen before them in that run, and the loop never runs on past
\* such an epoch: below the epoch limit the loop halts iff that is the case.
C1_EarlyStopIff ==
    \A a \in Arch : Fitting(a) =>
        /\ nofail <= 3
        /\ stop_training[a] <=> nofail = 3
        /\ epoch[a] < 30 => (~LoopContinues(a) <=> nofail = 3)

\* C1 witness: the scenario [0.10, 0.50, 0.49, 0.48, 0.47]: epoch 2 is the peak,
\* epochs 3, 4, 5 do not improve, the run is halted after epoch 5.
C1_Witness ==
    /\ Fitting("mlp") /\ epoch["mlp"] = 5 /\ argmax["mlp"] = 2 /\ nofail = 3
    /\ stop_training["mlp"] /\ ~LoopContinues("mlp")

\* C2: during a run the checkpoint on disk is the one written at the earliest
\* epoch that attained the largest val_accuracy so far, and it is overwritten
\* at the end of an epoch only if that epoch strictly exceeded all before it.
C2_MonotonicBest ==
    /\ [](\A a \in Arch : Fitting(a) /\ epoch[a] >= 1 =>
              ckpt[a] = [src |-> "this", epoch |-> argmax[a]])
    /\ [][\A a \in Arch : Fitting(a) /\ ckpt'[a] # ckpt[a] =>
              hmax' > hmax /\ ckpt'[a] = [src |-> "this", epoch |-> epoch'[a]]]_vars

\* C2 witness: five epochs run, the peak was epoch 2, the checkpoint is epoch 2's.
C2_Witness ==
    /\ Fitting("cnn") /\ epoch["cnn"] = 5 /\ argmax["cnn"] = 2
    /\ ckpt["cnn"] = [src |-> "this", epoch |-> 2]

\* C3: once <arch>/model is written it holds the weights of the best epoch of
\* this invocation's run of that architecture, and load_weights always finds a
\* checkpoint written by this invocation.
C3_FinalIsBestOfRun ==
    /\ \A a \in Arch : Completed(St("save", a)) =>
           saved[a] = [src |-> "this", epoch |-> argmax[a]]
    /\ At("load_weights") => ckpt[Stage.arg].src = "this"

\* C3 witness: a finished `local` invocation over a working directory holding
\* an earlier invocation's checkpoints; the MLP ran to the epoch limit, the CNN
\* stopped early, and in neither run was the last epoch the best one.
C3_Witness ==
    /\ cmd = "local" /\ status = "done" /\ workdir0 = "prior"
    /\ epoch["mlp"] = 30 /\ ~stop_training["mlp"] /\ argmax["mlp"] < 30
    /\ stop_training["cnn"] /\ epoch["cnn"] < 30 /\ argmax["cnn"] < epoch["cnn"]

\* C4: once a fit call has returned, the architecture's training log holds one
\* row per executed epoch of that run, and when `local` completes both
\* architectures have a serialized model written by this invocation.
C4_OneRowPerEpoch ==
    /\ \A a \in Arch : Completed(St("fit", a)) =>
           log[a] = [src |-> "this", rows |-> epoch[a]]
    /\ cmd = "local" /\ status = "done" =>
           \A a \in Arch : Completed(St("save", a)) /\ saved[a].src = "this"

\* C4 witness: both dataset files were already present (nothing fetched), the
\* invocation completed, and the two runs executed different numbers of epochs.
C4_Witness ==
    /\ cmd = "local" /\ status = "done" /\ workdir0 = "prior" /\ fetched = {}
    /\ epoch["mlp"] = 4 /\ epoch["cnn"] = 30

\* C5: no run executes a 31st epoch, and the process always ends: either a
\* stage failed or both architectures are finalized.
C5_Terminates ==
    /\ [](\A a \in Arch : epoch[a] <= 30)
    /\ <>(status = "failed" \/
           (status = "done" /\ (cmd = "local" => \A a \in Arch : Completed(St("save", a)))))

\* C5 witness: `local` completed with one run ended by the epoch limit and the
\* other by patience.
C5_Witness ==
    /\ cmd = "local" /\ status = "done"
    /\ epoch["cnn"] = 30 /\ ~stop_training["cnn"] /\ stop_training["mlp"]

\* C6: `remote` over an empty working directory ends with the test dataset as
\* the only dataset file (the only one fetched), both mlp/ and cnn/ holding the
\* checkpoint and log of their bundle, no epoch run and no model serialized;
\* a bundle's contents appear only once the bundle is on disk.
C6_RemoteOutcome ==
    /\ cmd = "remote" /\ workdir0 = "empty" /\ status = "done" =>
           /\ datasets = {TEST_DATA_NAME} /\ fetched = {TEST_DATA_NAME}
           /\ \A a \in Arch : ckpt[a] = BundleCkpt /\ log[a] = BundleLog
           /\ \A a \in Arch : epoch[a] = 0 /\ saved[a] = NoFile /\ weights[a] = NoFile
    /\ cmd = "remote" => \A a \in Arch : ckpt[a].src = "bundle" => a \in bundles

\* C6 witness: `remote` completed over an empty working directory.
C6_Witness ==
    cmd = "remote" /\ workdir0 = "empty" /\ status = "done" /\ bundles = Arch

\* C7: the stages entered are always a duplicate-free prefix of the program
\* (no stage is re-attempted); a failure ends the process with a nonzero exit
\* status at the failing stage, and nothing happens after it.
C7_FailFast ==
    /\ [](attempts = SubSeq(Program(cmd), 1, IF inFit \/ status = "failed" THEN pc ELSE pc - 1))
    /\ [](status = "failed" => exit # 0)
    /\ [][status = "failed" => UNCHANGED vars]_vars

\* C7 witness: the CNN fit failed after at least one epoch.
C7_Witness ==
    status = "failed" /\ Fitting("cnn") /\ epoch["cnn"] >= 1 /\ exit = 1

\* C8: throughout the CNN run the shared early-stopping monitor's fields, the
\* CNN's stop flag, its checkpoint and its log are functions of the CNN run's
\* own history alone (largest accuracy so far, trailing non-improving epochs,
\* earliest best epoch, epochs run), whatever the MLP run before it was.
C8_CnnOwnHistory ==
    Fitting("cnn") =>
        /\ es.best = hmax /\ es.wait = nofail
        /\ es.stopped_epoch = (IF nofail = 3 THEN epoch["cnn"] - 1 ELSE 0)
        /\ stop_training["cnn"] = (nofail = 3)
        /\ log["cnn"] = [src |-> "this", rows |-> epoch["cnn"]]
        /\ ckpt["cnn"] = (IF epoch["cnn"] = 0 THEN Workdir0Ckpt
                          ELSE [src |-> "this", epoch |-> argmax["cnn"]])

\* C8 witness: the MLP run was stopped by the monitor (which it left with
\* wait = 3 and a stopped epoch), and the CNN run is past its third epoch, still
\* improving.
C8_Witness ==
    /\ Fitting("cnn") /\ stop_training["mlp"] /\ epoch["mlp"] = 4
    /\ epoch["cnn"] = 5 /\ nofail = 0 /\ ~stop_training["cnn"]

\* C9 as stated: in every epoch the observers act in the order checkpoint,
\* log row, early-stopping check.
C9_Original ==
    \A a \in Arch : Fitting(a) /\ epoch[a] >= 1 =>
        Names(trace) = << "checkpoint", "records", "early_stopping" >>

\* C9 amended: in every epoch the observers act in the order early-stopping
\* check, checkpoint, log row; on the epoch at which early stopping triggers
\* the stop flag is already set when the checkpoint comparison and the log row
\* are made, and both are still made in that epoch, before the loop is left.
C9_CallbackOrder ==
    \A a \in Arch : Fitting(a) /\ epoch[a] >= 1 =>
        /\ Names(trace) = << "early_stopping", "checkpoint", "records" >>
        /\ ~trace[1].stop
        /\ trace[2].stop = stop_training[a] /\ trace[3].stop = stop_training[a]
        /\ trace[3].rows = epoch[a] - 1 /\ log[a].rows = epoch[a]

\* C9 witness: the epoch at which early stopping triggered.
C9_Witness ==
    /\ Fitting("mlp") /\ stop_training["mlp"] /\ Len(trace) = 3
    /\ trace[2].stop /\ trace[2].cb = "checkpoint"

\* C10: <arch>/model is written only after both fit calls have returned, and
\* if the CNN fit fails, mlp/model is as it was when the process started while
\* mlp/ holds the checkpoint and log of this invocation's MLP run.
C10_FinalizeAfterBothFits ==
    /\ \A a \in Arch :
           (cmd = "local" /\ \E i \in 1..Len(attempts) : attempts[i] = St("save", a))
               => Completed(St("fit", "mlp")) /\ Completed(St("fit", "cnn"))
    /\ \A a \in Arch : ~Completed(St("fit", "cnn")) => saved[a] = Workdir0Ckpt
    /\ status = "failed" /\ Fitting("cnn") =>
           /\ saved["mlp"] = Workdir0Ckpt
           /\ ckpt["mlp"] = [src |-> "this", epoch |-> argmax["mlp"]]
           /\ log["mlp"] = [src |-> "this", rows |-> epoch["mlp"]]

\* C10 witness: the CNN fit failed mid-run after a complete MLP run.
C10_Witness ==
    /\ status = "failed" /\ Fitting("cnn") /\ epoch["cnn"] = 2
    /\ epoch["mlp"] = 30 /\ workdir0 = "empty"
====
